---- MODULE Spec2Model ----
(***************************************************************************)
(* JSON Web Token object of cups/jwt.c (OpenSSL build): construction,      *)
(* import/export in the JWS Compact Serialization, claim mutation,        *)
(* signing and signature verification.                                    *)
(*                                                                         *)
(* Text and binary data are sequences of byte values 0..255 (ASCII codes   *)
(* for text).  A NULL pointer is the value NULL, which is no byte string.  *)
(***************************************************************************)
EXTENDS Integers, Sequences, FiniteSets, TLC

NULL == <<-1>>

\* _CUPS_JWT_MAX_SIGNATURE
MAX_SIGNATURE == 2048

\* cups_jwa_t
CUPS_JWA_NONE == 0
CUPS_JWA_HS256 == 1
CUPS_JWA_HS384 == 2
CUPS_JWA_HS512 == 3
CUPS_JWA_RS256 == 4
CUPS_JWA_RS384 == 5
CUPS_JWA_RS512 == 6
CUPS_JWA_ES256 == 7
CUPS_JWA_ES384 == 8
CUPS_JWA_ES512 == 9
CUPS_JWA_MAX == 10

\* ASCII codes used by the texts below
DOT == 46

S_typ == <<116,121,112>>
S_JWT == <<74,87,84>>
S_alg == <<97,108,103>>
S_k == <<107>>
S_n == <<110>>
S_e == <<101>>
S_d == <<100>>
S_x == <<120>>
S_y == <<121>>
S_crv == <<99,114,118>>
S_P256 == <<80,45,50,53,54>>
S_P384 == <<80,45,51,56,52>>
S_P521 == <<80,45,53,50,49>>

\* cups_jwa_strings[], indexed by cups_jwa_t + 1
cups_jwa_strings ==
  << <<110,111,110,101>>,      \* "none"
     <<72,83,50,53,54>>,       \* "HS256"
     <<72,83,51,56,52>>,       \* "HS384"
     <<72,83,53,49,50>>,       \* "HS512"
     <<82,83,50,53,54>>,       \* "RS256"
     <<82,83,51,56,52>>,       \* "RS384"
     <<82,83,53,49,50>>,       \* "RS512"
     <<69,83,50,53,54>>,       \* "ES256"
     <<69,83,51,56,52>>,       \* "ES384"
     <<69,83,53,49,50>> >>     \* "ES512"

\* cups_jwa_algorithms[]: the digest length in bytes of "sha2-256/384/512",
\* indexed by cups_jwa_t + 1 (0 for the NULL entry of "none")
cups_jwa_algorithms == <<0, 32, 48, 64, 32, 48, 64, 32, 48, 64>>

Min(a, b) == IF a < b THEN a ELSE b

(***************************************************************************)
(* Base64url codec (httpEncode64 with url = true, httpDecode64).           *)
(***************************************************************************)

\* the character of a 6-bit value in the URL-safe alphabet
B64Char(v) ==
  IF v < 26 THEN 65 + v
  ELSE IF v < 52 THEN 97 + (v - 26)
  ELSE IF v < 62 THEN 48 + (v - 52)
  ELSE IF v = 62 THEN 45
  ELSE 95

\* the 6-bit value of a character, -1 for a character outside the alphabet
B64Val(c) ==
  IF c >= 65 /\ c <= 90 THEN c - 65
  ELSE IF c >= 97 /\ c <= 122 THEN c - 97 + 26
  ELSE IF c >= 48 /\ c <= 57 THEN c - 48 + 52
  ELSE IF c = 43 \/ c = 45 THEN 62
  ELSE IF c = 47 \/ c = 95 THEN 63
  ELSE -1

\* httpEncode64(out, outlen, in, inlen, url = true): unpadded output, cut to
\* the outlen - 1 characters the buffer holds before the terminating nul
httpEncode64(outsize, in) ==
  LET n == Len(in)
      outlen == Min((n * 4 + 2) \div 3, outsize - 1)
      At(i) == IF i <= n THEN in[i] ELSE 0
      Sextet(j) ==
        LET g == (j - 1) \div 4
            r == (j - 1) % 4
            b0 == At(3 * g + 1)
            b1 == At(3 * g + 2)
            b2 == At(3 * g + 3)
        IN  CASE r = 0 -> b0 \div 4
              [] r = 1 -> (b0 % 4) * 16 + b1 \div 16
              [] r = 2 -> (b1 % 16) * 4 + b2 \div 64
              [] OTHER -> b2 % 64
  IN  <<>> \o [j \in 1..outlen |-> B64Char(Sextet(j))]

\* the least member of a non-empty set of integers
Least(S) == CHOOSE x \in S : \A y \in S : x <= y

\* the length of the longest run of alphabet characters of s from index i
B64Run(s, i) ==
  LET stops == {j \in i..Len(s) : B64Val(s[j]) < 0}
  IN  IF i > Len(s) THEN 0
      ELSE IF stops = {} THEN Len(s) - i + 1
      ELSE Least(stops) - i

\* httpDecode64(out, outlen, in, end): decodes from index `from` of `in` up to
\* the first character outside the alphabet; `end` is the index where decoding
\* stopped (Len(in) + 1 stands for the terminating nul).  A NULL input fails.
httpDecode64(in, from, outsize) ==
  IF in = NULL THEN [ok |-> FALSE, out |-> <<>>, end |-> 0]
  ELSE
    LET k == B64Run(in, from)
        V(j) == B64Val(in[from + j - 1])
        full == (k * 6) \div 8
        Byte(i) ==
          LET g == (i - 1) \div 3
              r == (i - 1) % 3
              c0 == V(4 * g + 1)
              c1 == V(4 * g + 2)
              c2 == IF 4 * g + 3 <= k THEN V(4 * g + 3) ELSE 0
              c3 == IF 4 * g + 4 <= k THEN V(4 * g + 4) ELSE 0
          IN  CASE r = 0 -> c0 * 4 + c1 \div 16
                [] r = 1 -> (c1 % 16) * 16 + c2 \div 4
                [] OTHER -> (c2 % 4) * 64 + c3
    IN  [ok |-> TRUE,
         out |-> <<>> \o [i \in 1..Min(full, outsize) |-> Byte(i)],
         end |-> from + k]

\* data[datalen] = '\0'; strdup(data): the bytes before the first nul
strdup(data) ==
  LET nuls == {j \in 1..Len(data) : data[j] = 0}
  IN  IF nuls = {} THEN data ELSE SubSeq(data, 1, Least(nuls) - 1)

(***************************************************************************)
(* JSON tree adapter (cupsJSON functions).  A node is an object or array    *)
(* with a list of children; a child is a named (objects) or unnamed        *)
(* (arrays) string or number value.  Texts handled: compact or spaced      *)
(* objects and arrays of strings without escapes and of natural numbers.   *)
(***************************************************************************)

\* a NULL cups_json_t pointer
JNULL == [type |-> "null", kids |-> <<>>]

\* cupsJSONNew(NULL, NULL, CUPS_JTYPE_OBJECT)
cupsJSONNew == [type |-> "object", kids |-> <<>>]

\* a string value node and a number value node
JString(s) == [type |-> "string", str |-> s, num |-> 0]
JNumber(v) == [type |-> "number", str |-> <<>>, num |-> v]

\* _cupsJSONAdd(parent, cupsJSONNewKey(parent, NULL, name), value): appended last
cupsJSONAdd(json, name, value) ==
  [json EXCEPT !.kids =
     Append(@, [name |-> name, type |-> value.type, str |-> value.str, num |-> value.num])]

\* _cupsJSONDelete(json, name): removes the member called name
cupsJSONDelete(json, name) ==
  [json EXCEPT !.kids = SelectSeq(@, LAMBDA m : m.name # name)]

\* cupsJSONGetString(cupsJSONFind(json, name)): the string value of the first
\* member called name of an object, NULL when there is none or it is no string
cupsJSONFindString(json, name) ==
  LET hits == IF json.type = "object"
              THEN SelectSeq(json.kids, LAMBDA m : m.name = name)
              ELSE <<>>
  IN  IF hits # <<>> /\ hits[1].type = "string" THEN hits[1].str ELSE NULL

\* the decimal digits of a natural number
RECURSIVE Digits(_)
Digits(v) == IF v < 10 THEN <<48 + v>> ELSE Digits(v \div 10) \o <<48 + (v % 10)>>

\* the text of one child
ExportKid(m, named) ==
  (IF named THEN <<34>> \o m.name \o <<34, 58>> ELSE <<>>)
  \o (IF m.type = "string" THEN <<34>> \o m.str \o <<34>> ELSE Digits(m.num))

RECURSIVE ExportKids(_, _)
ExportKids(kids, named) ==
  IF kids = <<>> THEN <<>>
  ELSE ExportKid(Head(kids), named)
       \o (IF Tail(kids) = <<>> THEN <<>> ELSE <<44>>)
       \o ExportKids(Tail(kids), named)

\* cupsJSONExportString(json): compact text, members in list order
cupsJSONExportString(json) ==
  IF json.type = "object" THEN <<123>> \o ExportKids(json.kids, TRUE) \o <<125>>
  ELSE <<91>> \o ExportKids(json.kids, FALSE) \o <<93>>

\* the index of the first character of t at or after i that is no space
RECURSIVE SkipWs(_, _)
SkipWs(t, i) == IF i <= Len(t) /\ t[i] = 32 THEN SkipWs(t, i + 1) ELSE i

\* the index of the first '"' of t at or after i, 0 when there is none
RECURSIVE FindQuote(_, _)
FindQuote(t, i) ==
  IF i > Len(t) THEN 0 ELSE IF t[i] = 34 THEN i ELSE FindQuote(t, i + 1)

\* the length of the run of digits of t from i
RECURSIVE DigitRun(_, _)
DigitRun(t, i) ==
  IF i <= Len(t) /\ t[i] >= 48 /\ t[i] <= 57 THEN 1 + DigitRun(t, i + 1) ELSE 0

\* the value of the digits t[i..j]
RECURSIVE NumVal(_, _, _)
NumVal(t, i, j) == IF j < i THEN 0 ELSE NumVal(t, i, j - 1) * 10 + (t[j] - 48)

ParseFail == [ok |-> FALSE, str |-> <<>>, next |-> 0]

\* a string literal starting at i
ParseString(t, i) ==
  IF i > Len(t) \/ t[i] # 34 THEN ParseFail
  ELSE LET j == FindQuote(t, i + 1)
       IN  IF j = 0 THEN ParseFail
           ELSE [ok |-> TRUE, str |-> SubSeq(t, i + 1, j - 1), next |-> j + 1]

ValueFail == [ok |-> FALSE, v |-> JNumber(0), next |-> 0]

\* a string or number value starting at i
ParseValue(t, i) ==
  IF i > Len(t) THEN ValueFail
  ELSE IF t[i] = 34 THEN
    LET String(s) ==
          IF s.ok THEN [ok |-> TRUE, v |-> JString(s.str), next |-> s.next] ELSE ValueFail
    IN  String(ParseString(t, i))
  ELSE
    LET k == DigitRun(t, i)
    IN  IF k = 0 THEN ValueFail
        ELSE [ok |-> TRUE, v |-> JNumber(NumVal(t, i, i + k - 1)), next |-> i + k]

KidsFail == [ok |-> FALSE, json |-> JNULL, next |-> 0]

\* the children of an object (named) or array from index i up to the closing
\* bracket `close`, appended to json
RECURSIVE ParseKids(_, _, _, _)
ParseKids(t, i, json, close) ==
  LET named == json.type = "object"
      p == SkipWs(t, i)
      \* the member key : val is added; a comma or the closing bracket follows
      Member(key, val) ==
        LET q == SkipWs(t, val.next)
            grown == cupsJSONAdd(json, key.str, val.v)
        IN  IF ~val.ok \/ q > Len(t) THEN KidsFail
            ELSE IF t[q] = close THEN [ok |-> TRUE, json |-> grown, next |-> q + 1]
            ELSE IF t[q] = 44 THEN ParseKids(t, q + 1, grown, close)
            ELSE KidsFail
      \* the colon and the value after the name of a member
      Value(key) ==
        LET c == SkipWs(t, key.next)
            colon == ~named \/ (c <= Len(t) /\ t[c] = 58)
        IN  IF ~key.ok \/ ~colon THEN KidsFail
            ELSE Member(key, ParseValue(t, SkipWs(t, IF named THEN c + 1 ELSE c)))
  IN  Value(IF named THEN ParseString(t, p) ELSE [ok |-> TRUE, str |-> <<>>, next |-> p])

\* cupsJSONImportString(s): the tree of a text, JNULL for malformed JSON
cupsJSONImportString(t) ==
  LET p == SkipWs(t, 1)
  IN  IF p > Len(t) \/ (t[p] # 123 /\ t[p] # 91) THEN JNULL
      ELSE
        LET root == [type |-> IF t[p] = 123 THEN "object" ELSE "array", kids |-> <<>>]
            close == IF t[p] = 123 THEN 125 ELSE 93
            q == SkipWs(t, p + 1)
            \* nothing but spaces may follow the closing bracket
            End(r) == IF r.ok /\ SkipWs(t, r.next) = Len(t) + 1 THEN r.json ELSE JNULL
        IN  End(IF q <= Len(t) /\ t[q] = close
                THEN [ok |-> TRUE, json |-> root, next |-> q + 1]
                ELSE ParseKids(t, p + 1, root, close))

(***************************************************************************)
(* Hash, HMAC, RSA and ECDSA primitives.  The library functions are        *)
(* replaced by stand-ins that keep the lengths of their results and the    *)
(* relation between a private key and its public key: a digest is a        *)
(* position-weighted checksum, an RSA signature is the folded digest       *)
(* shifted by the private exponent, an ECDSA signature is the DER form of  *)
(* a pair (R, S) with R drawn from the nonce.                              *)
(***************************************************************************)

\* a position-weighted sum of data[lo..hi]
RECURSIVE Mix(_, _, _, _)
Mix(data, w, lo, hi) ==
  LET Term(k) == IF k <= hi THEN data[k] * (((k * w) % 251) + 1) ELSE 0
  IN  IF lo > hi THEN 0
      ELSE IF hi - lo < 4 THEN (Term(lo) + Term(lo + 1) + Term(lo + 2) + Term(lo + 3)) % 65521
      ELSE LET mid == (lo + hi) \div 2
           IN  (Mix(data, w, lo, mid) + Mix(data, w, mid + 1, hi)) % 65521

\* cupsHashData(algorithm, data, datalen, hash, hashsize): a digest of hashlen bytes
cupsHashData(hashlen, data) ==
  LET m1 == Mix(data, 1, 1, Len(data))
      m2 == Mix(data, 3, 1, Len(data))
  IN  <<>> \o [i \in 1..hashlen |->
                 (m1 + i * m2 + (i * i) * (m1 \div 256) + (i \div 4) * (m2 \div 256)
                  + Len(data)) % 256]

\* cupsHMACData(algorithm, key, keylen, data, datalen, hmac, hmacsize)
cupsHMACData(hashlen, key, data) ==
  cupsHashData(hashlen, <<Len(key)>> \o key \o data)

\* the private exponent that belongs to a modulus
RsaPrivate(n) == <<>> \o [i \in 1..Len(n) |-> (n[i] * 3 + 7) % 256]

\* the digest folded to the len bytes of the modulus
RsaFold(len, hash) ==
  <<>> \o [i \in 1..len |->
    ((IF i <= Len(hash) THEN hash[i] ELSE 0)
     + 3 * (IF i + len <= Len(hash) THEN hash[i + len] ELSE 0)
     + 5 * (IF i + 2 * len <= Len(hash) THEN hash[i + 2 * len] ELSE 0)
     + 7 * (IF i + 3 * len <= Len(hash) THEN hash[i + 3 * len] ELSE 0)
     + Len(hash)) % 256]

\* RSA_sign(nid, hash, hash_len, signature, &siglen, rsa): a signature as
\* long as the modulus; fails without a private exponent
RSA_sign(hash, rsa) ==
  IF rsa.d = NULL \/ rsa.d = <<>> \/ rsa.n = <<>>
  THEN [ok |-> FALSE, sig |-> <<>>]
  ELSE LET em == RsaFold(Len(rsa.n), hash)
       IN  [ok |-> TRUE,
            sig |-> <<>> \o [i \in 1..Len(em) |->
                      (em[i] + rsa.d[((i - 1) % Len(rsa.d)) + 1]) % 256]]

\* RSA_verify(nid, hash, hash_len, signature, sigsize, rsa) == 1
RSA_verify(hash, sig, rsa) ==
  LET made == RSA_sign(hash, [rsa EXCEPT !.d = RsaPrivate(rsa.n)])
  IN  made.ok /\ sig = made.sig

\* the coordinate length in bytes of a curve name, 0 for an unknown curve
CurveLen(crv) ==
  IF crv = S_P256 THEN 32
  ELSE IF crv = S_P384 THEN 48
  ELSE IF crv = S_P521 THEN 66
  ELSE 0

\* EC_POINT_mul(group, point, d, NULL, NULL, NULL): the public point of d
EC_POINT_mul(len, d) ==
  IF d = <<>> THEN [x |-> <<>> \o [i \in 1..len |-> 1], y |-> <<>> \o [i \in 1..len |-> 1]]
  ELSE [x |-> <<>> \o [i \in 1..len |-> (d[((i - 1) % Len(d)) + 1] * 5 + i) % 256],
        y |-> <<>> \o [i \in 1..len |-> (d[((i - 1) % Len(d)) + 1] * 9 + 3 * i) % 256]]

\* the S half that belongs to a digest, a public point and an R half
EcS(len, hash, point, r) ==
  <<>> \o [i \in 1..len |->
     1 + ((hash[((i - 1) % Len(hash)) + 1]
           + 3 * (IF point.x = <<>> THEN 0 ELSE point.x[((i - 1) % Len(point.x)) + 1])
           + r[i]) % 127)]

\* the ASN.1 DER form SEQUENCE { INTEGER r, INTEGER s }
DerLength(n) == IF n < 128 THEN <<n>> ELSE <<129, n>>
DerSignature(r, s) ==
  <<48>> \o DerLength(Len(r) + Len(s) + 4) \o <<2, Len(r)>> \o r \o <<2, Len(s)>> \o s

\* ECDSA_sign(0, hash, hash_len, signature, &siglen, ec): DER output; fails
\* without a private key
ECDSA_sign(hash, ec, nonce) ==
  IF ec.d = NULL THEN [ok |-> FALSE, sig |-> <<>>]
  ELSE LET r == <<>> \o [i \in 1..ec.len |-> 1 + ((nonce * 16 + i) % 127)]
       IN  [ok |-> TRUE, sig |-> DerSignature(r, EcS(ec.len, hash, ec.point, r))]

\* ECDSA_verify(0, hash, hash_len, signature, sigsize, ec) == 1
ECDSA_verify(hash, sig, ec) ==
  LET hdr == Len(<<48>> \o DerLength(2 * ec.len + 4)) + 2
  IN  /\ Len(sig) = hdr + 2 * ec.len + 2
      /\ LET r == SubSeq(sig, hdr + 1, hdr + ec.len)
         IN  sig = DerSignature(r, EcS(ec.len, hash, ec.point, r))

(***************************************************************************)
(* Key materialization (make_bignum, make_rsa, make_ec_key).  A JWK is a   *)
(* JSON object whose members are strings.                                  *)
(***************************************************************************)

\* make_bignum(jwk, key): the decoded bytes of a member, NULL when the
\* member is missing or characters follow the Base64 data
make_bignum(jwk, key) ==
  LET Decode(value, dec) ==
        IF value = NULL THEN NULL
        ELSE IF ~dec.ok \/ dec.end <= Len(value) THEN NULL
        ELSE dec.out
      Value(value) == Decode(value, httpDecode64(value, 1, 1024))
  IN  Value(cupsJSONFindString(jwk, key))

\* a NULL EC_KEY pointer and a NULL RSA pointer
EC_NULL == [null |-> TRUE, len |-> 0, d |-> NULL, point |-> [x |-> <<>>, y |-> <<>>]]
RSA_NULL == [null |-> TRUE, n |-> <<>>, e |-> <<>>, d |-> NULL]

\* make_ec_key(jwk, verify)
make_ec_key(jwk, verify) ==
  LET Key(crv, x, y, d) ==
        LET len == CurveLen(crv)
        IN  IF crv = NULL \/ ((x = NULL \/ y = NULL) /\ d = NULL) THEN EC_NULL
            ELSE IF len = 0 THEN EC_NULL
            ELSE [null |-> FALSE, len |-> len, d |-> d,
                  point |-> IF d # NULL THEN EC_POINT_mul(len, d) ELSE [x |-> x, y |-> y]]
  IN  Key(cupsJSONFindString(jwk, S_crv), make_bignum(jwk, S_x), make_bignum(jwk, S_y),
          IF verify THEN NULL ELSE make_bignum(jwk, S_d))

\* make_rsa(jwk)
make_rsa(jwk) ==
  LET Key(n, e, d) ==
        IF n = NULL \/ e = NULL THEN RSA_NULL
        ELSE [null |-> FALSE, n |-> n, e |-> e, d |-> d]
  IN  Key(make_bignum(jwk, S_n), make_bignum(jwk, S_e), make_bignum(jwk, S_d))

(***************************************************************************)
(* The JWT object (struct _cups_jwt_s) and its operations.                 *)
(***************************************************************************)

\* a NULL cups_jwt_t pointer
JWT_NULL ==
  [null |-> TRUE, jose |-> JNULL, jose_string |-> NULL, claims |-> JNULL,
   claims_string |-> NULL, sigalg |-> CUPS_JWA_NONE, sigsize |-> 0, signature |-> NULL]

\* calloc(1, sizeof(cups_jwt_t))
JWT_ZERO == [JWT_NULL EXCEPT !.null = FALSE]

\* a make_string that serializes the claims anew on every call
make_string_Reexports(jwt, with_signature, heap) ==
  LET claims_string == cupsJSONExportString(jwt.claims)
      jose_len == Len(jwt.jose_string)
      claims_len == Len(claims_string)
      len == ((jose_len + 2) * 4) \div 3 + 1 + ((claims_len + 2) * 4) \div 3 + 1
             + ((MAX_SIGNATURE + 2) * 4) \div 3 + 1
      Segments(h, c) ==
        LET room == len - Len(h) - 1 - Len(c) - 1
        IN  h \o <<DOT>> \o c
            \o (IF with_signature
                THEN <<DOT>> \o (IF jwt.sigsize > 0
                                 THEN httpEncode64(room, jwt.signature)
                                 ELSE heap)
                ELSE <<>>)
      Claims(h) == Segments(h, httpEncode64(len - Len(h) - 1, claims_string))
  IN  [jwt |-> [jwt EXCEPT !.claims_string = claims_string],
       s |-> IF jwt.jose_string = NULL THEN NULL
             ELSE Claims(httpEncode64(len, jwt.jose_string))]

\* make_string(jwt, with_signature): the string (NULL when the JOSE string is
\* missing) and the token, whose claims string is filled in when it was NULL.
\* Nothing ends the string after the second '.' when the token has no
\* signature: it runs on with the bytes the block malloc returned holds there
\* up to the first nul, which are `heap`.
make_string(jwt, with_signature, heap) ==
  LET claims_string == IF jwt.claims_string = NULL
                       THEN cupsJSONExportString(jwt.claims)
                       ELSE jwt.claims_string
      jose_len == Len(jwt.jose_string)
      claims_len == Len(claims_string)
      len == ((jose_len + 2) * 4) \div 3 + 1 + ((claims_len + 2) * 4) \div 3 + 1
             + ((MAX_SIGNATURE + 2) * 4) \div 3 + 1
      \* the header segment h and the claims segment c, then the signature
      Segments(h, c) ==
        LET room == len - Len(h) - 1 - Len(c) - 1
        IN  h \o <<DOT>> \o c
            \o (IF with_signature
                THEN <<DOT>> \o (IF jwt.sigsize > 0
                                 THEN httpEncode64(room, jwt.signature)
                                 ELSE heap)
                ELSE <<>>)
      Claims(h) == Segments(h, httpEncode64(len - Len(h) - 1, claims_string))
  IN  [jwt |-> [jwt EXCEPT !.claims_string = claims_string],
       s |-> IF jwt.jose_string = NULL THEN NULL
             ELSE Claims(httpEncode64(len, jwt.jose_string))]

\* make_signature with the RS* digest always taken as SHA-256
make_signature_Sha256(jwt, alg, jwk, nonce) ==
  LET hashlen == cups_jwa_algorithms[alg + 1]
      \* ms is the result of make_string(jwt, false)
      Signature(ms) ==
        LET fail(why) == [jwt |-> ms.jwt, ret |-> FALSE, signature |-> <<>>, why |-> why]
            good(sig) == [jwt |-> ms.jwt, ret |-> TRUE, signature |-> sig, why |-> "none"]
            made(m) == IF m.ok THEN good(m.sig) ELSE fail("crypto")
            hmac(key) == IF ~key.ok THEN fail("jwk")
                         ELSE good(cupsHMACData(hashlen, key.out, ms.s))
            rsa_sign(rsa) == IF rsa.null THEN fail("jwk")
                             ELSE made(RSA_sign(cupsHashData(cups_jwa_algorithms[CUPS_JWA_RS256 + 1], ms.s), rsa))
            ecdsa_sign(ec) == IF ec.null THEN fail("jwk")
                              ELSE made(ECDSA_sign(cupsHashData(hashlen, ms.s), ec, nonce))
        IN  IF alg >= CUPS_JWA_HS256 /\ alg <= CUPS_JWA_HS512
            THEN hmac(httpDecode64(cupsJSONFindString(jwk, S_k), 1, 256))
            ELSE IF alg >= CUPS_JWA_RS256 /\ alg <= CUPS_JWA_RS512
            THEN rsa_sign(make_rsa(jwk))
            ELSE IF alg >= CUPS_JWA_ES256 /\ alg <= CUPS_JWA_ES512
            THEN ecdsa_sign(make_ec_key(jwk, FALSE))
            ELSE fail("alg")
  IN  Signature(make_string(jwt, FALSE, <<>>))

\* make_signature(jwt, alg, jwk, signature, sigsize).  why tells a failure at
\* key materialization ("jwk") from one of the signing primitive ("crypto").
make_signature(jwt, alg, jwk, nonce) ==
  LET hashlen == cups_jwa_algorithms[alg + 1]
      \* ms is the result of make_string(jwt, false)
      Signature(ms) ==
        LET fail(why) == [jwt |-> ms.jwt, ret |-> FALSE, signature |-> <<>>, why |-> why]
            good(sig) == [jwt |-> ms.jwt, ret |-> TRUE, signature |-> sig, why |-> "none"]
            made(m) == IF m.ok THEN good(m.sig) ELSE fail("crypto")
            hmac(key) == IF ~key.ok THEN fail("jwk")
                         ELSE good(cupsHMACData(hashlen, key.out, ms.s))
            rsa_sign(rsa) == IF rsa.null THEN fail("jwk")
                             ELSE made(RSA_sign(cupsHashData(hashlen, ms.s), rsa))
            ecdsa_sign(ec) == IF ec.null THEN fail("jwk")
                              ELSE made(ECDSA_sign(cupsHashData(hashlen, ms.s), ec, nonce))
        IN  IF alg >= CUPS_JWA_HS256 /\ alg <= CUPS_JWA_HS512
            THEN hmac(httpDecode64(cupsJSONFindString(jwk, S_k), 1, 256))
            ELSE IF alg >= CUPS_JWA_RS256 /\ alg <= CUPS_JWA_RS512
            THEN rsa_sign(make_rsa(jwk))
            ELSE IF alg >= CUPS_JWA_ES256 /\ alg <= CUPS_JWA_ES512
            THEN ecdsa_sign(make_ec_key(jwk, FALSE))
            ELSE fail("alg")
  IN  Signature(make_string(jwt, FALSE, <<>>))

\* cupsJWTNew(type)
cupsJWTNew(type) ==
  [JWT_ZERO EXCEPT
     !.jose = cupsJSONAdd(cupsJSONNew, S_typ, JString(IF type # NULL THEN type ELSE S_JWT)),
     !.claims = cupsJSONNew]

\* an algorithm lookup that compares without regard to the case of letters
HeaderAlg_IgnoreCase(jose) ==
  LET Lower(str) == <<>> \o [k \in 1..Len(str) |->
                             IF str[k] >= 65 /\ str[k] <= 90 THEN str[k] + 32 ELSE str[k]]
      alg == cupsJSONFindString(jose, S_alg)
      hits == {a \in CUPS_JWA_NONE..(CUPS_JWA_MAX - 1) :
                 alg # NULL /\ Lower(cups_jwa_strings[a + 1]) = Lower(alg)}
  IN  IF alg # NULL /\ hits # {} THEN CHOOSE a \in hits : \A b \in hits : a <= b
      ELSE CUPS_JWA_NONE

\* the algorithm a header names: the first entry of cups_jwa_strings equal to
\* the "alg" string, CUPS_JWA_NONE (the calloc value) when there is none
HeaderAlg(jose) ==
  LET alg == cupsJSONFindString(jose, S_alg)
      hits == {a \in CUPS_JWA_NONE..(CUPS_JWA_MAX - 1) : cups_jwa_strings[a + 1] = alg}
  IN  IF alg # NULL /\ hits # {} THEN CHOOSE a \in hits : \A b \in hits : a <= b
      ELSE CUPS_JWA_NONE

\* an import that does not look at what follows the signature segment
cupsJWTImportString_NoEndCheck(token) ==
  LET \* the algorithm of the header against the size of the signature
      Checked(jwt) ==
        IF (jwt.sigalg = CUPS_JWA_NONE) # (jwt.sigsize = 0) THEN JWT_NULL ELSE jwt
      \* the signature segment d3, which ends the string
      Signature(jwt, d3) ==
        IF ~d3.ok THEN JWT_NULL
        ELSE Checked([jwt EXCEPT !.signature = IF Len(d3.out) > 0 THEN d3.out ELSE NULL,
                                 !.sigsize = Len(d3.out),
                                 !.sigalg = HeaderAlg(jwt.jose)])
      \* the claims segment d2, which ends at the second dot
      Claims(jwt, d2) ==
        LET Tree(claims) ==
              IF claims = JNULL THEN JWT_NULL
              ELSE Signature([jwt EXCEPT !.claims_string = strdup(d2.out),
                                         !.claims = claims],
                             httpDecode64(token, d2.end + 1, 65536))
        IN  IF ~d2.ok \/ d2.end > Len(token) \/ token[d2.end] # DOT THEN JWT_NULL
            ELSE Tree(cupsJSONImportString(strdup(d2.out)))
      \* the header segment d1, which ends at the first dot
      Jose(d1) ==
        LET Tree(jose) ==
              IF jose = JNULL THEN JWT_NULL
              ELSE Claims([JWT_ZERO EXCEPT !.jose_string = strdup(d1.out), !.jose = jose],
                          httpDecode64(token, d1.end + 1, 65535))
        IN  IF ~d1.ok \/ d1.end > Len(token) \/ token[d1.end] # DOT THEN JWT_NULL
            ELSE Tree(cupsJSONImportString(strdup(d1.out)))
  IN  Jose(httpDecode64(token, 1, 65535))

\* an import without the comparison of algorithm and signature size
cupsJWTImportString_NoI1Check(token) ==
  LET \* the algorithm of the header against the size of the signature
      Checked(jwt) ==
        jwt
      \* the signature segment d3, which ends the string
      Signature(jwt, d3) ==
        IF ~d3.ok \/ d3.end <= Len(token) THEN JWT_NULL
        ELSE Checked([jwt EXCEPT !.signature = IF Len(d3.out) > 0 THEN d3.out ELSE NULL,
                                 !.sigsize = Len(d3.out),
                                 !.sigalg = HeaderAlg(jwt.jose)])
      \* the claims segment d2, which ends at the second dot
      Claims(jwt, d2) ==
        LET Tree(claims) ==
              IF claims = JNULL THEN JWT_NULL
              ELSE Signature([jwt EXCEPT !.claims_string = strdup(d2.out),
                                         !.claims = claims],
                             httpDecode64(token, d2.end + 1, 65536))
        IN  IF ~d2.ok \/ d2.end > Len(token) \/ token[d2.end] # DOT THEN JWT_NULL
            ELSE Tree(cupsJSONImportString(strdup(d2.out)))
      \* the header segment d1, which ends at the first dot
      Jose(d1) ==
        LET Tree(jose) ==
              IF jose = JNULL THEN JWT_NULL
              ELSE Claims([JWT_ZERO EXCEPT !.jose_string = strdup(d1.out), !.jose = jose],
                          httpDecode64(token, d1.end + 1, 65535))
        IN  IF ~d1.ok \/ d1.end > Len(token) \/ token[d1.end] # DOT THEN JWT_NULL
            ELSE Tree(cupsJSONImportString(strdup(d1.out)))
  IN  Jose(httpDecode64(token, 1, 65535))

\* cupsJWTImportString(token): the new token, JWT_NULL after import_error
cupsJWTImportString(token) ==
  LET \* the algorithm of the header against the size of the signature
      Checked(jwt) ==
        IF (jwt.sigalg = CUPS_JWA_NONE) # (jwt.sigsize = 0) THEN JWT_NULL ELSE jwt
      \* the signature segment d3, which ends the string
      Signature(jwt, d3) ==
        IF ~d3.ok \/ d3.end <= Len(token) THEN JWT_NULL
        ELSE Checked([jwt EXCEPT !.signature = IF Len(d3.out) > 0 THEN d3.out ELSE NULL,
                                 !.sigsize = Len(d3.out),
                                 !.sigalg = HeaderAlg(jwt.jose)])
      \* the claims segment d2, which ends at the second dot
      Claims(jwt, d2) ==
        LET Tree(claims) ==
              IF claims = JNULL THEN JWT_NULL
              ELSE Signature([jwt EXCEPT !.claims_string = strdup(d2.out),
                                         !.claims = claims],
                             httpDecode64(token, d2.end + 1, 65536))
        IN  IF ~d2.ok \/ d2.end > Len(token) \/ token[d2.end] # DOT THEN JWT_NULL
            ELSE Tree(cupsJSONImportString(strdup(d2.out)))
      \* the header segment d1, which ends at the first dot
      Jose(d1) ==
        LET Tree(jose) ==
              IF jose = JNULL THEN JWT_NULL
              ELSE Claims([JWT_ZERO EXCEPT !.jose_string = strdup(d1.out), !.jose = jose],
                          httpDecode64(token, d1.end + 1, 65535))
        IN  IF ~d1.ok \/ d1.end > Len(token) \/ token[d1.end] # DOT THEN JWT_NULL
            ELSE Tree(cupsJSONImportString(strdup(d1.out)))
  IN  Jose(httpDecode64(token, 1, 65535))

\* a set-claim that leaves the text of the claims as they were before it
cupsJWTSetClaim_StaleString(jwt, claim, value) ==
  [jwt EXCEPT !.claims_string = cupsJSONExportString(jwt.claims),
              !.claims = cupsJSONAdd(cupsJSONDelete(@, claim), claim, value)]

\* a set-claim that keeps the claims string
cupsJWTSetClaim_KeepsString(jwt, claim, value) ==
  [jwt EXCEPT !.claims = cupsJSONAdd(cupsJSONDelete(@, claim), claim, value)]

\* cupsJWTSetClaimNumber / cupsJWTSetClaimString / cupsJWTSetClaimValue: the
\* claims string is dropped, the claim removed and added again
cupsJWTSetClaim(jwt, claim, value) ==
  [jwt EXCEPT !.claims_string = NULL,
              !.claims = cupsJSONAdd(cupsJSONDelete(@, claim), claim, value)]

\* the range check of cupsJWTSign
SignRangeOk(jwt, alg, jwk) ==
  ~jwt.null /\ alg > CUPS_JWA_NONE /\ alg < CUPS_JWA_MAX /\ jwk # JNULL

\* a sign that clears the signature but not the algorithm before signing
cupsJWTSign_KeepsAlg(jwt, alg, jwk, nonce) ==
  IF ~SignRangeOk(jwt, alg, jwk) THEN [jwt |-> jwt, ret |-> FALSE, why |-> "range"]
  ELSE
    LET jose == cupsJSONAdd(cupsJSONDelete(jwt.jose, S_alg), S_alg,
                            JString(cups_jwa_strings[alg + 1]))
        cleared == [jwt EXCEPT !.jose = jose,
                               !.jose_string = cupsJSONExportString(jose),
                               !.signature = NULL,
                               !.sigsize = 0]
        \* made is the result of make_signature
        Store(made) ==
          IF ~made.ret THEN [jwt |-> made.jwt, ret |-> FALSE, why |-> made.why]
          ELSE [jwt |-> [made.jwt EXCEPT !.signature = made.signature,
                                         !.sigalg = alg,
                                         !.sigsize = Len(made.signature)],
                ret |-> TRUE, why |-> "none"]
    IN  Store(make_signature(cleared, alg, jwk, nonce))

\* a sign that does not clear the stored signature before signing
cupsJWTSign_KeepsSignature(jwt, alg, jwk, nonce) ==
  IF ~SignRangeOk(jwt, alg, jwk) THEN [jwt |-> jwt, ret |-> FALSE, why |-> "range"]
  ELSE
    LET jose == cupsJSONAdd(cupsJSONDelete(jwt.jose, S_alg), S_alg,
                            JString(cups_jwa_strings[alg + 1]))
        cleared == [jwt EXCEPT !.jose = jose,
                               !.jose_string = cupsJSONExportString(jose)]
        \* made is the result of make_signature
        Store(made) ==
          IF ~made.ret THEN [jwt |-> made.jwt, ret |-> FALSE, why |-> made.why]
          ELSE [jwt |-> [made.jwt EXCEPT !.signature = made.signature,
                                         !.sigalg = alg,
                                         !.sigsize = Len(made.signature)],
                ret |-> TRUE, why |-> "none"]
    IN  Store(make_signature(cleared, alg, jwk, nonce))

\* a sign that adds the alg member without removing the one already there
cupsJWTSign_AddsAlg(jwt, alg, jwk, nonce) ==
  IF ~SignRangeOk(jwt, alg, jwk) THEN [jwt |-> jwt, ret |-> FALSE, why |-> "range"]
  ELSE
    LET jose == cupsJSONAdd(jwt.jose, S_alg, JString(cups_jwa_strings[alg + 1]))
        cleared == [jwt EXCEPT !.jose = jose,
                               !.jose_string = cupsJSONExportString(jose),
                               !.signature = NULL,
                               !.sigsize = 0,
                               !.sigalg = CUPS_JWA_NONE]
        Store(made) ==
          IF ~made.ret THEN [jwt |-> made.jwt, ret |-> FALSE, why |-> made.why]
          ELSE [jwt |-> [made.jwt EXCEPT !.signature = made.signature,
                                         !.sigalg = alg,
                                         !.sigsize = Len(made.signature)],
                ret |-> TRUE, why |-> "none"]
    IN  Store(make_signature(cleared, alg, jwk, nonce))

\* a sign that adds alg to the header and leaves the header text as it was
cupsJWTSign_KeepsJoseString(jwt, alg, jwk, nonce) ==
  IF ~SignRangeOk(jwt, alg, jwk) THEN [jwt |-> jwt, ret |-> FALSE, why |-> "range"]
  ELSE
    LET jose == cupsJSONAdd(cupsJSONDelete(jwt.jose, S_alg), S_alg,
                            JString(cups_jwa_strings[alg + 1]))
        cleared == [jwt EXCEPT !.jose = jose,
                               !.signature = NULL,
                               !.sigsize = 0,
                               !.sigalg = CUPS_JWA_NONE]
        \* made is the result of make_signature
        Store(made) ==
          IF ~made.ret THEN [jwt |-> made.jwt, ret |-> FALSE, why |-> made.why]
          ELSE [jwt |-> [made.jwt EXCEPT !.signature = made.signature,
                                         !.sigalg = alg,
                                         !.sigsize = Len(made.signature)],
                ret |-> TRUE, why |-> "none"]
    IN  Store(make_signature(cleared, alg, jwk, nonce))

\* a sign that clears the signature before it checks its arguments
cupsJWTSign_ClearsFirst(jwt, alg, jwk, nonce) ==
  IF ~SignRangeOk(jwt, alg, jwk)
  THEN [jwt |-> IF jwt.null THEN jwt
                ELSE [jwt EXCEPT !.signature = NULL, !.sigsize = 0,
                                 !.sigalg = CUPS_JWA_NONE],
        ret |-> FALSE, why |-> "range"]
  ELSE
    LET jose == cupsJSONAdd(cupsJSONDelete(jwt.jose, S_alg), S_alg,
                            JString(cups_jwa_strings[alg + 1]))
        cleared == [jwt EXCEPT !.jose = jose,
                               !.jose_string = cupsJSONExportString(jose),
                               !.signature = NULL,
                               !.sigsize = 0,
                               !.sigalg = CUPS_JWA_NONE]
        \* made is the result of make_signature
        Store(made) ==
          IF ~made.ret THEN [jwt |-> made.jwt, ret |-> FALSE, why |-> made.why]
          ELSE [jwt |-> [made.jwt EXCEPT !.signature = made.signature,
                                         !.sigalg = alg,
                                         !.sigsize = Len(made.signature)],
                ret |-> TRUE, why |-> "none"]
    IN  Store(make_signature(cleared, alg, jwk, nonce))

\* cupsJWTSign(jwt, alg, jwk)
cupsJWTSign(jwt, alg, jwk, nonce) ==
  IF ~SignRangeOk(jwt, alg, jwk) THEN [jwt |-> jwt, ret |-> FALSE, why |-> "range"]
  ELSE
    LET jose == cupsJSONAdd(cupsJSONDelete(jwt.jose, S_alg), S_alg,
                            JString(cups_jwa_strings[alg + 1]))
        cleared == [jwt EXCEPT !.jose = jose,
                               !.jose_string = cupsJSONExportString(jose),
                               !.signature = NULL,
                               !.sigsize = 0,
                               !.sigalg = CUPS_JWA_NONE]
        \* made is the result of make_signature
        Store(made) ==
          IF ~made.ret THEN [jwt |-> made.jwt, ret |-> FALSE, why |-> made.why]
          ELSE [jwt |-> [made.jwt EXCEPT !.signature = made.signature,
                                         !.sigalg = alg,
                                         !.sigsize = Len(made.signature)],
                ret |-> TRUE, why |-> "none"]
    IN  Store(make_signature(cleared, alg, jwk, nonce))

\* a verify whose return value starts as true: every path that leaves the
\* switch without setting it returns true
cupsJWTHasValidSignature_RetTrue(jwt, jwk) ==
  IF jwt.null \/ jwt.signature = NULL \/ jwk = JNULL
  THEN [jwt |-> jwt, ret |-> FALSE, oob |-> FALSE]
  ELSE
    LET oob == jwt.sigsize < 4
        hashlen == cups_jwa_algorithms[jwt.sigalg + 1]
        \* made is the result of make_signature
        hmac(made) ==
          [jwt |-> made.jwt, oob |-> oob,
           ret |-> made.ret => (jwt.sigsize = Len(made.signature)
                                /\ jwt.signature = made.signature)]
        \* ms is the result of make_string(jwt, false)
        rsa_verify(ms, rsa) ==
          [jwt |-> ms.jwt, oob |-> oob,
           ret |-> rsa.null
                   \/ RSA_verify(cupsHashData(hashlen, ms.s), jwt.signature, rsa)]
        ecdsa_verify(ms, ec) ==
          [jwt |-> ms.jwt, oob |-> oob,
           ret |-> ec.null
                   \/ ECDSA_verify(cupsHashData(hashlen, ms.s), jwt.signature, ec)]
    IN  IF jwt.sigalg >= CUPS_JWA_HS256 /\ jwt.sigalg <= CUPS_JWA_HS512
        THEN hmac(make_signature(jwt, jwt.sigalg, jwk, 0))
        ELSE IF jwt.sigalg >= CUPS_JWA_RS256 /\ jwt.sigalg <= CUPS_JWA_RS512
        THEN rsa_verify(make_string(jwt, FALSE, <<>>), make_rsa(jwk))
        ELSE IF jwt.sigalg >= CUPS_JWA_ES256 /\ jwt.sigalg <= CUPS_JWA_ES512
        THEN ecdsa_verify(make_string(jwt, FALSE, <<>>), make_ec_key(jwk, TRUE))
        ELSE [jwt |-> jwt, ret |-> TRUE, oob |-> oob]

\* a verify that takes a token without algorithm and signature as valid
cupsJWTHasValidSignature_AllowNone(jwt, jwk) ==
  IF ~jwt.null /\ jwt.sigalg = CUPS_JWA_NONE /\ jwt.sigsize = 0 /\ jwk # JNULL
  THEN [jwt |-> jwt, ret |-> TRUE, oob |-> FALSE]
  ELSE IF jwt.null \/ jwt.signature = NULL \/ jwk = JNULL
  THEN [jwt |-> jwt, ret |-> FALSE, oob |-> FALSE]
  ELSE
    LET oob == jwt.sigsize < 4
        hashlen == cups_jwa_algorithms[jwt.sigalg + 1]
        \* made is the result of make_signature
        hmac(made) ==
          [jwt |-> made.jwt, oob |-> oob,
           ret |-> made.ret /\ jwt.sigsize = Len(made.signature)
                   /\ jwt.signature = made.signature]
        \* ms is the result of make_string(jwt, false)
        rsa_verify(ms, rsa) ==
          [jwt |-> ms.jwt, oob |-> oob,
           ret |-> ~rsa.null
                   /\ RSA_verify(cupsHashData(hashlen, ms.s), jwt.signature, rsa)]
        ecdsa_verify(ms, ec) ==
          [jwt |-> ms.jwt, oob |-> oob,
           ret |-> ~ec.null
                   /\ ECDSA_verify(cupsHashData(hashlen, ms.s), jwt.signature, ec)]
    IN  IF jwt.sigalg >= CUPS_JWA_HS256 /\ jwt.sigalg <= CUPS_JWA_HS512
        THEN hmac(make_signature(jwt, jwt.sigalg, jwk, 0))
        ELSE IF jwt.sigalg >= CUPS_JWA_RS256 /\ jwt.sigalg <= CUPS_JWA_RS512
        THEN rsa_verify(make_string(jwt, FALSE, <<>>), make_rsa(jwk))
        ELSE IF jwt.sigalg >= CUPS_JWA_ES256 /\ jwt.sigalg <= CUPS_JWA_ES512
        THEN ecdsa_verify(make_string(jwt, FALSE, <<>>), make_ec_key(jwk, TRUE))
        ELSE [jwt |-> jwt, ret |-> FALSE, oob |-> oob]

\* cupsJWTHasValidSignature(jwt, jwk).  oob tells that the diagnostic line
\* reads signature[0..3] and signature[sigsize - 4 .. sigsize - 1] of a
\* signature shorter than four bytes.
cupsJWTHasValidSignature(jwt, jwk) ==
  IF jwt.null \/ jwt.signature = NULL \/ jwk = JNULL
  THEN [jwt |-> jwt, ret |-> FALSE, oob |-> FALSE]
  ELSE
    LET oob == jwt.sigsize < 4
        hashlen == cups_jwa_algorithms[jwt.sigalg + 1]
        \* made is the result of make_signature
        hmac(made) ==
          [jwt |-> made.jwt, oob |-> oob,
           ret |-> made.ret /\ jwt.sigsize = Len(made.signature)
                   /\ jwt.signature = made.signature]
        \* ms is the result of make_string(jwt, false)
        rsa_verify(ms, rsa) ==
          [jwt |-> ms.jwt, oob |-> oob,
           ret |-> ~rsa.null
                   /\ RSA_verify(cupsHashData(hashlen, ms.s), jwt.signature, rsa)]
        ecdsa_verify(ms, ec) ==
          [jwt |-> ms.jwt, oob |-> oob,
           ret |-> ~ec.null
                   /\ ECDSA_verify(cupsHashData(hashlen, ms.s), jwt.signature, ec)]
    IN  IF jwt.sigalg >= CUPS_JWA_HS256 /\ jwt.sigalg <= CUPS_JWA_HS512
        THEN hmac(make_signature(jwt, jwt.sigalg, jwk, 0))
        ELSE IF jwt.sigalg >= CUPS_JWA_RS256 /\ jwt.sigalg <= CUPS_JWA_RS512
        THEN rsa_verify(make_string(jwt, FALSE, <<>>), make_rsa(jwk))
        ELSE IF jwt.sigalg >= CUPS_JWA_ES256 /\ jwt.sigalg <= CUPS_JWA_ES512
        THEN ecdsa_verify(make_string(jwt, FALSE, <<>>), make_ec_key(jwk, TRUE))
        ELSE [jwt |-> jwt, ret |-> FALSE, oob |-> oob]

\* cupsJWTGetAlgorithm(jwt)
cupsJWTGetAlgorithm(jwt) == IF jwt.null THEN CUPS_JWA_NONE ELSE jwt.sigalg

\* cupsJWTExportString(jwt)
cupsJWTExportString(jwt, heap) ==
  IF jwt.null THEN [jwt |-> jwt, s |-> NULL] ELSE make_string(jwt, TRUE, heap)

(***************************************************************************)
(* Inputs: the JSON Web Keys, claim values and compact serializations the  *)
(* callers pass in.                                                        *)
(***************************************************************************)

\* the largest number a claim is set to
MaxNumber == 1

\* the nonces ECDSA_sign draws from
Nonces == {1, 2}

B64(bytes) == httpEncode64(4096, bytes)

Key1 == <<1, 2, 3, 4>>
Key2 == <<9, 8, 7>>
RsaN == <<>> \o [i \in 1..16 |-> (i * 7 + 129) % 256]
RsaE == <<1, 0, 1>>
EcD == <<11, 22, 33, 44>>

RECURSIVE MakeObject(_)
MakeObject(members) ==
  IF members = <<>> THEN cupsJSONNew
  ELSE LET m == members[Len(members)]
       IN  cupsJSONAdd(MakeObject(SubSeq(members, 1, Len(members) - 1)), m[1], JString(m[2]))

JwkOct1 == MakeObject(<< <<S_k, B64(Key1)>> >>)
JwkOct2 == MakeObject(<< <<S_k, B64(Key2)>> >>)
JwkRsaPrivate ==
  MakeObject(<< <<S_n, B64(RsaN)>>, <<S_e, B64(RsaE)>>, <<S_d, B64(RsaPrivate(RsaN))>> >>)
JwkRsaPublic == MakeObject(<< <<S_n, B64(RsaN)>>, <<S_e, B64(RsaE)>> >>)
JwkEcPrivate ==
  MakeObject(<< <<S_crv, S_P256>>, <<S_x, B64(EC_POINT_mul(32, EcD).x)>>,
                <<S_y, B64(EC_POINT_mul(32, EcD).y)>>, <<S_d, B64(EcD)>> >>)
JwkEcPublic ==
  MakeObject(<< <<S_crv, S_P256>>, <<S_x, B64(EC_POINT_mul(32, EcD).x)>>,
                <<S_y, B64(EC_POINT_mul(32, EcD).y)>> >>)
JwkEmpty == cupsJSONNew
JwkRsaNoModulus == MakeObject(<< <<S_e, B64(RsaE)>>, <<S_d, B64(RsaPrivate(RsaN))>> >>)
JwkEcNoCurve ==
  MakeObject(<< <<S_x, B64(EC_POINT_mul(32, EcD).x)>>,
                <<S_y, B64(EC_POINT_mul(32, EcD).y)>>, <<S_d, B64(EcD)>> >>)
JwkEcNoScalars == MakeObject(<< <<S_crv, S_P256>> >>)

\* the keys callers pass
JWKS ==
  << JwkOct1, JwkOct2, JwkRsaPrivate, JwkRsaPublic, JwkEcPrivate, JwkEcPublic,
     JwkEmpty, JwkRsaNoModulus, JwkEcNoCurve, JwkEcNoScalars >>

\* for each key, the key that holds its public (or the same symmetric) part
PublicOf == <<1, 2, 4, 4, 6, 6, 7, 8, 9, 10>>

\* the keys cupsJWTSign is called with for an algorithm: the matching
\* private key, keys without the private part or without a parameter the
\* algorithm needs, and a NULL jwk
SignKeys(alg) ==
  IF alg >= CUPS_JWA_HS256 /\ alg <= CUPS_JWA_HS512 THEN {0, 1, 7}
  ELSE IF alg >= CUPS_JWA_RS256 /\ alg <= CUPS_JWA_RS512 THEN {3, 4, 8}
  ELSE IF alg >= CUPS_JWA_ES256 /\ alg <= CUPS_JWA_ES512 THEN {5, 6, 9, 10}
  ELSE {1}

\* what the block malloc returns to make_string may hold where the signature
\* segment starts: a nul, letters of the Base64url alphabet, another character
Heap == {<<>>, <<65, 81>>, <<33>>}

ClaimA == <<97>>
ClaimNames == {ClaimA}
ClaimStrings == {<<120>>}
ClaimNodes == {JString(<<120>>)}
Types == {NULL, S_JWT}

\* the header text of a token signed with an algorithm, and of a new token
Header(alg) ==
  cupsJSONExportString(
    cupsJSONAdd(cupsJWTNew(NULL).jose, S_alg, JString(cups_jwa_strings[alg + 1])))
H_typ == cupsJSONExportString(cupsJWTNew(NULL).jose)
\* ["a"]
H_array == <<91, 34, 97, 34, 93>>
\* {"typ"
H_broken == <<123, 34, 116, 121, 112, 34>>
\* {"alg":"hs256"}
H_lower == <<123, 34, 97, 108, 103, 34, 58, 34, 104, 115, 50, 53, 54, 34, 125>>
\* {"alg":5}
H_number == <<123, 34, 97, 108, 103, 34, 58, 53, 125>>
\* {}
C_empty == cupsJSONExportString(cupsJSONNew)
\* {"a":1}
C_a1 == cupsJSONExportString(cupsJSONAdd(cupsJSONNew, ClaimA, JNumber(1)))
\* {"b": 2, "a": 1}
C_spaced == <<123, 34, 98, 34, 58, 32, 50, 44, 32, 34, 97, 34, 58, 32, 49, 125>>
\* [1]
C_array == <<91, 49, 93>>
\* aaa.bbb
S5_two == <<97, 97, 97, 46, 98, 98, 98>>
\* aaa.bbb.ccc.ddd
S5_four == <<97, 97, 97, 46, 98, 98, 98, 46, 99, 99, 99, 46, 100, 100, 100>>

\* a signature segment of one byte more than _CUPS_JWT_MAX_SIGNATURE
LongSignature == <<>> \o [k \in 1..(MAX_SIGNATURE + 1) |-> 1 + (k % 250)]

\* a signature whose base64url form does not fit in what make_string
\* allocates for a signature
LongerSignature == LongSignature \o LongSignature

\* the compact serialization of a header text, a claims text and a signature
Wire(h, c, sig) == B64(h) \o <<DOT>> \o B64(c) \o <<DOT>> \o B64(sig)

\* the serialization of a token with claim a = 1 signed by key i
SignedWire(alg, i) ==
  cupsJWTExportString(
    cupsJWTSign(cupsJWTSetClaim(cupsJWTNew(NULL), ClaimA, JNumber(1)), alg, JWKS[i], 1).jwt,
    <<>>).s

\* a token whose claims text is not in the exporter's form, signed HS256 by key 1
SpacedWire ==
  LET jwt == [JWT_ZERO EXCEPT !.jose_string = Header(CUPS_JWA_HS256),
                              !.claims_string = C_spaced]
  IN  Wire(Header(CUPS_JWA_HS256), C_spaced,
           make_signature(jwt, CUPS_JWA_HS256, JwkOct1, 0).signature)

\* the token with claim a = 1 signed HS256 by key 1, with a nul byte and an
\* 'x' added to the header text before it is encoded
NulWire ==
  Wire(Header(CUPS_JWA_HS256) \o <<0, 120>>, C_a1,
       cupsJWTSign(cupsJWTSetClaim(cupsJWTNew(NULL), ClaimA, JNumber(1)),
                   CUPS_JWA_HS256, JwkOct1, 1).jwt.signature)

\* the strings passed to cupsJWTImportString by the callers that go on to
\* change and sign the imported token
ImportInputs ==
  << Wire(Header(CUPS_JWA_NONE), C_a1, <<>>),
     SignedWire(CUPS_JWA_HS256, 1),
     SpacedWire,
     Wire(Header(CUPS_JWA_HS256), C_a1, <<>>),
     S5_two >>

\* the strings passed to cupsJWTImportString by the callers that only
\* verify and export the imported token
WireInputs ==
  << Wire(H_typ, C_empty, <<>>),
     Wire(Header(CUPS_JWA_NONE), C_a1, <<>>),
     SignedWire(CUPS_JWA_HS256, 1),
     SignedWire(CUPS_JWA_RS256, 3),
     SignedWire(CUPS_JWA_ES256, 5),
     SpacedWire,
     Wire(Header(CUPS_JWA_HS256), C_a1, <<>>),
     Wire(Header(CUPS_JWA_ES512), C_empty, <<>>),
     Wire(Header(CUPS_JWA_NONE), C_a1, <<1, 2, 3, 4>>),
     Wire(H_typ, C_a1, <<1, 2, 3, 4>>),
     Wire(Header(CUPS_JWA_HS256), C_a1, <<7>>),
     Wire(Header(CUPS_JWA_ES256), C_a1, <<48, 3>>),
     Wire(H_lower, C_a1, <<>>),
     Wire(H_lower, C_a1, <<1, 2, 3, 4>>),
     Wire(H_number, C_a1, <<>>),
     B64(H_typ),
     B64(H_typ) \o <<DOT>> \o B64(C_a1),
     Wire(H_typ, C_a1, <<>>) \o <<DOT>> \o B64(<<1, 2, 3>>),
     Wire(H_typ, C_a1, <<>>) \o <<DOT>>,
     SignedWire(CUPS_JWA_HS256, 1) \o <<DOT>> \o B64(<<1, 2, 3>>),
     S5_two,
     S5_four,
     Wire(H_array, C_a1, <<>>),
     Wire(H_array, C_a1, <<1, 2, 3, 4>>),
     Wire(Header(CUPS_JWA_HS256), C_array, <<1, 2, 3, 4>>),
     Wire(H_typ, C_array, <<>>),
     Wire(H_broken, C_a1, <<>>),
     Wire(H_typ, C_a1, <<>>) \o <<33>>,
     <<>>,
     Wire(H_number, C_a1, <<1, 2, 3, 4>>),
     Wire(Header(CUPS_JWA_HS256), C_a1, LongSignature),
     NulWire,
     Wire(Header(CUPS_JWA_HS256), C_a1, LongerSignature) >>

(***************************************************************************)
(* The state machine: one token handle of a caller, the last call made,   *)
(* and the keys and strings the caller holds.                              *)
(***************************************************************************)
VARIABLES jwt, last, jwks, inputs

vars == <<jwt, last, jwks, inputs>>

\* the key a caller passes; index 0 stands for a NULL jwk
Jwk(i) == IF i = 0 THEN JNULL ELSE jwks[i]

\* the record of the last call: the operation, its arguments, what it returned,
\* why a sign failed, and whether the token carried a signature before a sign
Call(op, alg, jwk, input, ret, why) ==
  [op |-> op, alg |-> alg, jwk |-> jwk, input |-> input, ret |-> ret, why |-> why,
   signed |-> FALSE]

Init ==
  /\ jwt = JWT_NULL
  /\ last = Call("none", 0, 0, 0, FALSE, "none")
  /\ jwks = JWKS
  /\ inputs = ImportInputs

\* jwt = cupsJWTNew(type)
New(type) ==
  /\ jwt.null
  /\ jwt' = cupsJWTNew(type)
  /\ last' = Call("new", 0, 0, 0, TRUE, "none")
  /\ UNCHANGED <<jwks, inputs>>

\* jwt = cupsJWTImportString(ImportInputs[i])
Import(i) ==
  /\ jwt.null
  /\ \E r \in {cupsJWTImportString(inputs[i])} :
       /\ jwt' = r
       /\ last' = Call("import", 0, 0, i, ~r.null, "none")
  /\ UNCHANGED <<jwks, inputs>>

\* cupsJWTDelete(jwt); jwt = NULL
Delete ==
  /\ ~jwt.null
  /\ jwt' = JWT_NULL
  /\ last' = Call("delete", 0, 0, 0, TRUE, "none")
  /\ UNCHANGED <<jwks, inputs>>

\* cupsJWTSetClaimNumber(jwt, claim, value)
SetClaimNumber(claim, value) ==
  /\ ~jwt.null
  /\ jwt' = cupsJWTSetClaim(jwt, claim, JNumber(value))
  /\ last' = Call("set_claim", 0, 0, 0, TRUE, "none")
  /\ UNCHANGED <<jwks, inputs>>

\* cupsJWTSetClaimString(jwt, claim, value)
SetClaimString(claim, value) ==
  /\ ~jwt.null
  /\ jwt' = cupsJWTSetClaim(jwt, claim, JString(value))
  /\ last' = Call("set_claim", 0, 0, 0, TRUE, "none")
  /\ UNCHANGED <<jwks, inputs>>

\* cupsJWTSetClaimValue(jwt, claim, value)
SetClaimValue(claim, value) ==
  /\ ~jwt.null
  /\ jwt' = cupsJWTSetClaim(jwt, claim, value)
  /\ last' = Call("set_claim", 0, 0, 0, TRUE, "none")
  /\ UNCHANGED <<jwks, inputs>>

\* cupsJWTSign(jwt, alg, Jwk(i))
Sign(alg, i, nonce) ==
  \E r \in {cupsJWTSign(jwt, alg, Jwk(i), nonce)} :
    /\ jwt' = r.jwt
    /\ last' = [Call("sign", alg, IF r.ret THEN i ELSE 0, 0, r.ret, r.why)
                  EXCEPT !.signed = jwt.signature # NULL]
    /\ UNCHANGED <<jwks, inputs>>

\* cupsJWTHasValidSignature(jwt, Jwk(i))
HasValidSignature(i) ==
  \E r \in {cupsJWTHasValidSignature(jwt, Jwk(i))} :
    /\ jwt' = r.jwt
    /\ last' = Call("verify", 0, 0, 0, r.ret, IF r.oob THEN "oob" ELSE "none")
    /\ UNCHANGED <<jwks, inputs>>

\* cupsJWTExportString(jwt)
ExportString ==
  \E heap \in Heap : \E r \in {cupsJWTExportString(jwt, heap)} :
    /\ jwt' = r.jwt
    /\ last' = Call("export", 0, 0, 0, r.s # NULL, "none")
    /\ UNCHANGED <<jwks, inputs>>

\* a change of a claim made through the handle cupsJWTGetClaims(jwt) returns
MutateClaims(claim, value) ==
  /\ ~jwt.null
  /\ jwt' = [jwt EXCEPT !.claims = cupsJSONAdd(cupsJSONDelete(@, claim), claim, JNumber(value))]
  /\ last' = Call("handle", 0, 0, 0, TRUE, "none")
  /\ UNCHANGED <<jwks, inputs>>

Next ==
  \/ \E type \in Types : New(type)
  \/ \E i \in 1..Len(inputs) : Import(i)
  \/ Delete
  \/ \E claim \in ClaimNames, value \in 1..MaxNumber : SetClaimNumber(claim, value)
  \/ \E claim \in ClaimNames, value \in ClaimStrings : SetClaimString(claim, value)
  \/ \E claim \in ClaimNames, value \in ClaimNodes : SetClaimValue(claim, value)
  \/ \E alg \in CUPS_JWA_NONE..CUPS_JWA_MAX : \E i \in SignKeys(alg) :
       \E nonce \in IF i = 5 THEN Nonces ELSE {1} : Sign(alg, i, nonce)
  \/ \E i \in 0..Len(jwks) : HasValidSignature(i)
  \/ ExportString

Spec == Init /\ [][Next]_vars

\* the callers that also change claims through the handle of cupsJWTGetClaims
NextHandle ==
  \/ Next
  \/ \E claim \in ClaimNames, value \in 1..MaxNumber : MutateClaims(claim, value)

SpecHandle == Init /\ [][NextHandle]_vars

\* the callers that import, verify and export
InitImport ==
  /\ jwt = JWT_NULL
  /\ last = Call("none", 0, 0, 0, FALSE, "none")
  /\ jwks = JWKS
  /\ inputs = WireInputs

NextImport ==
  \/ \E i \in 1..Len(inputs) : Import(i)
  \/ Delete
  \/ \E claim \in ClaimNames, value \in 1..MaxNumber : SetClaimNumber(claim, value)
  \/ \E claim \in ClaimNames, value \in ClaimStrings : SetClaimString(claim, value)
  \/ \E i \in 0..Len(jwks) : HasValidSignature(i)
  \/ ExportString

SpecImport == InitImport /\ [][NextImport]_vars

(***************************************************************************)
(* Properties.                                                             *)
(***************************************************************************)

\* C1: invariant I-1.  In every state reached by new, import, set-claim,
\* sign (successful or failed) and verify calls, the token's algorithm is
\* CUPS_JWA_NONE exactly when it stores no signature.
C1_InvariantI1 ==
  ~jwt.null =>
    /\ (jwt.sigalg = CUPS_JWA_NONE) <=> (jwt.sigsize = 0)
    /\ (jwt.sigsize = 0) <=> (jwt.signature = NULL)
    /\ jwt.signature # NULL => Len(jwt.signature) = jwt.sigsize

\* a sign that failed on a token that had been signed, leaving no signature
C1_Witness ==
  /\ last.op = "sign" /\ ~last.ret /\ last.why = "crypto"
  /\ ~jwt.null /\ jwt.sigalg = CUPS_JWA_NONE /\ jwt.signature = NULL
  /\ jwt.claims # cupsJSONNew

\* C2: after a successful sign with any of the nine algorithms, on a new or
\* imported token with any claims, verification with the matching public key
\* (the same key for HS*) returns true as long as nothing changed in between.
C2_SignThenVerify ==
  (last.op = "sign" /\ last.ret) =>
    /\ jwt.sigalg = last.alg
    /\ last.alg \in CUPS_JWA_HS256..CUPS_JWA_ES512
    /\ cupsJWTHasValidSignature(jwt, Jwk(PublicOf[last.jwk])).ret

\* a token with a claim, signed ES384 with the private EC key
C2_Witness ==
  /\ last.op = "sign" /\ last.ret /\ last.alg = CUPS_JWA_ES384 /\ last.jwk = 5
  /\ jwt.claims # cupsJSONNew
  /\ cupsJWTHasValidSignature(jwt, Jwk(6)).ret

\* C3: when a set-claim call changes the claims of a token whose signature
\* verifies under some key, verification under that key returns false
\* afterwards, on the token itself and on the token imported from its export.
C3_MutationBreaksSignature ==
  [][\A old \in {jwt}, new \in {jwt'} :
       (last'.op = "set_claim" /\ old.signature # NULL /\ new.claims # old.claims) =>
         \A i \in 1..Len(jwks) :
           cupsJWTHasValidSignature(old, Jwk(i)).ret =>
             /\ ~cupsJWTHasValidSignature(new, Jwk(i)).ret
             /\ \A heap \in Heap :
                  /\ cupsJWTExportString(new, heap).s # NULL
                  /\ ~cupsJWTHasValidSignature(
                        cupsJWTImportString(cupsJWTExportString(new, heap).s), Jwk(i)).ret]_vars

\* a token signed RS256 whose claim was changed afterwards: the signature no
\* longer verifies under the public RSA key
C3_Witness ==
  /\ last.op = "set_claim" /\ jwt.sigalg = CUPS_JWA_RS256
  /\ jwt.claims_string = NULL
  /\ ~cupsJWTHasValidSignature(jwt, Jwk(4)).ret
  /\ ~cupsJWTHasValidSignature(
        cupsJWTImportString(cupsJWTExportString(jwt, <<>>).s), Jwk(4)).ret

\* C4: whenever the claims string is present it is the text of the current
\* claims tree, whether the claims were changed by a set-claim call or through
\* the handle cupsJWTGetClaims returns; sign, verify and export then never use
\* a claims text older than the claims.
C4_ClaimsTextCurrent ==
  (~jwt.null /\ jwt.claims_string # NULL) =>
    cupsJSONImportString(jwt.claims_string) = jwt.claims

\* C5, as stated: after every failed sign, whatever the cause, the token
\* holds no signature.
C5_FailedSignClears ==
  (last.op = "sign" /\ ~last.ret) => (jwt.signature = NULL /\ jwt.sigsize = 0)

\* C5, amended: a sign that fails after the range check (a JWK without a
\* required parameter, a failing signing primitive) leaves the token without
\* signature and with algorithm CUPS_JWA_NONE, also when the token was signed
\* before; a sign rejected by the range check leaves the token as it was.
C5_FailedSignClearsAfterRangeCheck ==
  [][\A old \in {jwt}, new \in {jwt'} :
       (last'.op = "sign" /\ ~last'.ret) =>
         IF last'.why = "range" THEN new = old
         ELSE /\ last'.why \in {"jwk", "crypto"}
              /\ new.signature = NULL /\ new.sigsize = 0
              /\ new.sigalg = CUPS_JWA_NONE]_vars

\* a signed token after a sign that failed in the signing primitive
C5_Witness ==
  /\ last.op = "sign" /\ ~last.ret /\ last.why = "crypto" /\ last.signed
  /\ jwt.signature = NULL /\ jwt.sigsize = 0

\* C6: a sign that fails because the JWK lacks a parameter the algorithm
\* requires leaves the header tree, the header string, the algorithm and the
\* signature of the token as they were before the call.
C6_FailedSignLeavesNoPartialState ==
  [][\A old \in {jwt}, new \in {jwt'} :
       (last'.op = "sign" /\ ~last'.ret /\ last'.why = "jwk") =>
         /\ new.jose = old.jose
         /\ new.jose_string = old.jose_string
         /\ new.sigalg = old.sigalg
         /\ new.signature = old.signature]_vars

\* C7: whenever export returns a string, importing that string returns a
\* token whose export is the same string, byte for byte.
C7_ExportImportRoundTrip ==
  \A heap \in Heap : \A s \in {cupsJWTExportString(jwt, heap).s} :
    s # NULL =>
      \A again \in {cupsJWTImportString(s)} :
        ~again.null /\ \A more \in Heap : cupsJWTExportString(again, more).s = s

\* the positions of the '.' separators of a string, and its n-th segment
Dots(t) == {k \in 1..Len(t) : t[k] = DOT}

DotAt(t, n) ==
  IF Cardinality(Dots(t)) < n THEN Len(t) + 1
  ELSE CHOOSE k \in Dots(t) : Cardinality({j \in Dots(t) : j < k}) = n - 1

Segment(t, n) == SubSeq(t, IF n = 1 THEN 1 ELSE DotAt(t, n - 1) + 1, DotAt(t, n) - 1)

\* a segment is base64url without padding
IsBase64Url(s) == (\A k \in 1..Len(s) : B64Val(s[k]) >= 0) /\ Len(s) % 4 # 1

\* the JSON a segment decodes to, JNULL when it is not JSON
SegmentJSON(t, n) ==
  cupsJSONImportString(strdup(httpDecode64(Segment(t, n), 1, 65535).out))

\* three base64url segments, the first two of them JSON objects
WellFormed(t) ==
  /\ Cardinality(Dots(t)) = 2
  /\ \A n \in 1..3 : IsBase64Url(Segment(t, n))
  /\ SegmentJSON(t, 1).type = "object"
  /\ SegmentJSON(t, 2).type = "object"

\* the members called alg of a header
AlgMembers(jose) == SelectSeq(jose.kids, LAMBDA m : m.name = S_alg)

AlgNoneOrAbsent(jose) ==
  \/ AlgMembers(jose) = <<>>
  \/ /\ AlgMembers(jose)[1].type = "string"
     /\ AlgMembers(jose)[1].str = cups_jwa_strings[CUPS_JWA_NONE + 1]

AlgSigning(jose) ==
  /\ AlgMembers(jose) # <<>>
  /\ AlgMembers(jose)[1].type = "string"
  /\ \E a \in CUPS_JWA_HS256..CUPS_JWA_ES512 :
       AlgMembers(jose)[1].str = cups_jwa_strings[a + 1]

\* C8: import returns NULL, and no token is kept, for every input that does
\* not hold exactly two '.' separators.
C8_NotTwoDotsRejected ==
  last.op = "import" =>
    \A t \in {inputs[last.input]} :
      Cardinality(Dots(t)) # 2 => (jwt = JWT_NULL /\ ~last.ret)

\* the import of a signed token followed by a fourth segment
C8_Witness ==
  /\ last.op = "import" /\ ~last.ret /\ jwt = JWT_NULL
  /\ Cardinality(Dots(inputs[last.input])) = 3
  /\ ~cupsJWTImportString(
        SubSeq(inputs[last.input], 1, DotAt(inputs[last.input], 3) - 1)).null

\* C9: import returns NULL for every well-formed three-segment input that
\* violates I-1: a header whose alg is none or absent with a non-empty
\* signature segment, or a header whose alg is one of the nine signing
\* algorithms with an empty signature segment.
C9_I1ViolationRejected ==
  last.op = "import" =>
    \A t \in {inputs[last.input]} :
      (/\ WellFormed(t)
       /\ \/ AlgNoneOrAbsent(SegmentJSON(t, 1)) /\ Segment(t, 3) # <<>>
          \/ AlgSigning(SegmentJSON(t, 1)) /\ Segment(t, 3) = <<>>)
      => (jwt = JWT_NULL /\ ~last.ret)

\* the import of a token whose header names ES512 and whose signature
\* segment is empty
C9_Witness ==
  /\ last.op = "import" /\ ~last.ret /\ jwt = JWT_NULL
  /\ WellFormed(inputs[last.input])
  /\ HeaderAlg(SegmentJSON(inputs[last.input], 1)) = CUPS_JWA_ES512
  /\ Segment(inputs[last.input], 3) = <<>>

\* C10: import returns NULL whenever the header segment or the claims
\* segment decodes to JSON that is not an object, whatever the signature
\* segment is.
C10_NonObjectRejected ==
  last.op = "import" =>
    \A t \in {inputs[last.input]} :
      (\/ SegmentJSON(t, 1).type \notin {"null", "object"}
       \/ SegmentJSON(t, 2).type \notin {"null", "object"})
      => (jwt = JWT_NULL /\ ~last.ret)

\* the header text and the claims text of a token: the stored string, and
\* the serialization of the tree when no string is stored
HeaderText(t) == IF t.jose_string # NULL THEN t.jose_string ELSE cupsJSONExportString(t.jose)
ClaimsText(t) == IF t.claims_string # NULL THEN t.claims_string ELSE cupsJSONExportString(t.claims)

\* C11: the export of every token whose algorithm is CUPS_JWA_NONE and that
\* stores no signature (new, with or without claims, or imported unsigned) is
\* base64url(header) "." base64url(claims) "." and nothing more.
C11_UnsignedExport ==
  (~jwt.null /\ jwt.sigalg = CUPS_JWA_NONE /\ jwt.signature = NULL) =>
    \A heap \in Heap :
      cupsJWTExportString(jwt, heap).s =
        B64(HeaderText(jwt)) \o <<DOT>> \o B64(ClaimsText(jwt)) \o <<DOT>>

\* C12: a token whose algorithm is CUPS_JWA_NONE never verifies: in every
\* reachable state verification of such a token returns false for every JWK
\* a caller holds and for a NULL JWK, and every verify call made on such a
\* token has returned false.
C12_UnsignedNeverVerifies ==
  (~jwt.null /\ jwt.sigalg = CUPS_JWA_NONE) =>
    /\ \A i \in 0..Len(jwks) : ~cupsJWTHasValidSignature(jwt, Jwk(i)).ret
    /\ last.op = "verify" => ~last.ret

\* a verify call on an unsigned token that carries a claim
C12_Witness ==
  /\ last.op = "verify" /\ ~last.ret
  /\ ~jwt.null /\ jwt.sigalg = CUPS_JWA_NONE /\ jwt.signature = NULL
  /\ jwt.claims # cupsJSONNew

\* the algorithms whose identifier is, byte for byte, the string value of the
\* first alg member of a header
AlgExact(jose) ==
  {a \in CUPS_JWA_NONE..(CUPS_JWA_MAX - 1) :
     /\ AlgMembers(jose) # <<>>
     /\ AlgMembers(jose)[1].type = "string"
     /\ AlgMembers(jose)[1].str = cups_jwa_strings[a + 1]}

\* C13: for every well-formed input, an imported token has the algorithm
\* whose identifier equals the header's alg string exactly, and
\* CUPS_JWA_NONE when no identifier does (other case, unknown, no string, no
\* alg member); an input whose header selects no signing algorithm is
\* imported, with algorithm CUPS_JWA_NONE, when its signature segment is
\* empty and is rejected when its signature segment is not empty.
C13_AlgExactMatch ==
  last.op = "import" =>
    \A t \in {inputs[last.input]} :
      WellFormed(t) =>
        \A exact \in {AlgExact(SegmentJSON(t, 1))} :
          /\ ~jwt.null => jwt.sigalg \in (IF exact = {} THEN {CUPS_JWA_NONE} ELSE exact)
          /\ exact \subseteq {CUPS_JWA_NONE} =>
               IF Segment(t, 3) = <<>>
               THEN ~jwt.null /\ last.ret /\ jwt.sigalg = CUPS_JWA_NONE
               ELSE jwt = JWT_NULL /\ ~last.ret

\* the import of a token whose header says "hs256" and whose signature
\* segment is empty: accepted with algorithm CUPS_JWA_NONE
C13_Witness ==
  /\ last.op = "import" /\ last.ret /\ ~jwt.null
  /\ jwt.jose_string = H_lower
  /\ Segment(inputs[last.input], 3) = <<>>
  /\ jwt.sigalg = CUPS_JWA_NONE

\* C14: invariant I-3.  In every reachable state the signature a token
\* stores, made by sign or taken from an imported string, is at most
\* _CUPS_JWT_MAX_SIGNATURE = 2048 bytes long.
C14_InvariantI3 ==
  (~jwt.null /\ jwt.signature # NULL) =>
    (Len(jwt.signature) <= MAX_SIGNATURE /\ jwt.sigsize <= MAX_SIGNATURE)

\* the length in bytes of the raw form R || S of an ES* signature
RawLength(alg) ==
  CASE alg = CUPS_JWA_ES256 -> 64
    [] alg = CUPS_JWA_ES384 -> 96
    [] alg = CUPS_JWA_ES512 -> 132
    [] OTHER -> 0

\* C15: after a successful sign with ES256, ES384 or ES512 the stored
\* signature is the raw concatenation R || S of exactly 64, 96 or 132 bytes,
\* not the DER form of the crypto library, and verification with the public
\* key accepts it.
C15_EcdsaRawSignature ==
  (last.op = "sign" /\ last.ret /\ last.alg \in CUPS_JWA_ES256..CUPS_JWA_ES512) =>
    /\ jwt.sigsize = RawLength(last.alg)
    /\ Len(jwt.signature) = RawLength(last.alg)
    /\ cupsJWTHasValidSignature(jwt, Jwk(PublicOf[last.jwk])).ret

\* C16: for every token import accepts, whatever the length of its
\* signature, verification reads the signature only at indices
\* 0..sigsize - 1, with every JWK, and no verify call made has read outside.
C16_VerifyReadsInBounds ==
  /\ ~jwt.null => \A i \in 0..Len(jwks) : ~cupsJWTHasValidSignature(jwt, Jwk(i)).oob
  /\ last.op = "verify" => last.why # "oob"

\* C17: after a set-claim call (number, string or value) the token stores no
\* signature, its algorithm is CUPS_JWA_NONE and its claims string is absent,
\* also when the token was signed before the call.
C17_SetClaimClearsSignature ==
  last.op = "set_claim" =>
    /\ jwt.signature = NULL /\ jwt.sigsize = 0
    /\ jwt.sigalg = CUPS_JWA_NONE
    /\ jwt.claims_string = NULL

\* the JWS signing input of a token, and the signature the primitives give
\* for a text, an algorithm and a key
SigningInput(t) == B64(t.jose_string) \o <<DOT>> \o B64(t.claims_string)

SignatureOver(text, alg, jwk, nonce) ==
  IF alg <= CUPS_JWA_HS512
  THEN cupsHMACData(cups_jwa_algorithms[alg + 1],
                    httpDecode64(cupsJSONFindString(jwk, S_k), 1, 256).out, text)
  ELSE IF alg <= CUPS_JWA_RS512
  THEN RSA_sign(cupsHashData(cups_jwa_algorithms[alg + 1], text), make_rsa(jwk)).sig
  ELSE ECDSA_sign(cupsHashData(cups_jwa_algorithms[alg + 1], text),
                  make_ec_key(jwk, FALSE), nonce).sig

\* C18: right after a successful sign, on a new, a signed or an imported
\* token, the token's algorithm is the one passed, the header holds exactly
\* one alg member, the string of that algorithm, the header string is the
\* serialization of the header, and the stored signature, of sigsize bytes,
\* is the signature of base64url(header string) "." base64url(claims string)
\* under the key passed.
C18_SignReplaces ==
  (last.op = "sign" /\ last.ret) =>
    /\ jwt.sigalg = last.alg
    /\ Len(AlgMembers(jwt.jose)) = 1
    /\ AlgMembers(jwt.jose)[1].type = "string"
    /\ AlgMembers(jwt.jose)[1].str = cups_jwa_strings[last.alg + 1]
    /\ jwt.jose_string = cupsJSONExportString(jwt.jose)
    /\ jwt.claims_string # NULL
    /\ jwt.sigsize = Len(jwt.signature)
    /\ \E nonce \in Nonces :
         jwt.signature = SignatureOver(SigningInput(jwt), last.alg, Jwk(last.jwk), nonce)

\* a token that carried a signature, signed again with RS512
C18_Witness ==
  /\ last.op = "sign" /\ last.ret /\ last.signed /\ last.alg = CUPS_JWA_RS512
  /\ jwt.sigalg = CUPS_JWA_RS512
  /\ Len(jwt.jose.kids) = 2

\* C19: every set-claim call leaves the token without claims string, and a
\* successful sign stores a signature over a claims string that is a text of
\* the claims as they are at the call: the serialization of the claims
\* whenever a set-claim had removed the string, never an earlier text.
C19_SignSeesSetClaim ==
  [][\A old \in {jwt}, new \in {jwt'} :
       /\ last'.op = "set_claim" => new.claims_string = NULL
       /\ (last'.op = "sign" /\ last'.ret) =>
            /\ new.claims = old.claims
            /\ old.claims_string = NULL =>
                 new.claims_string = cupsJSONExportString(old.claims)
            /\ cupsJSONImportString(new.claims_string) = old.claims
            /\ \E nonce \in Nonces :
                 new.signature =
                   SignatureOver(SigningInput(new), last'.alg, Jwk(last'.jwk), nonce)]_vars

\* a token imported with the claims text {"b": 2, "a": 1}, changed by a
\* set-claim and then signed: its claims string is the serialization of the
\* changed claims
C19_Witness ==
  /\ last.op = "sign" /\ last.ret /\ last.signed
  /\ cupsJSONDelete(jwt.claims, <<98>>) # jwt.claims
  /\ jwt.claims_string = cupsJSONExportString(jwt.claims)
  /\ jwt.claims_string # C_spaced
  /\ cupsJWTHasValidSignature(jwt, Jwk(PublicOf[last.jwk])).ret

\* the JWK has no string member that the verification of an algorithm reads:
\* k for HS*, n or e for RS*, crv, x or y for ES*
LacksParameter(jwk, alg) ==
  LET Missing(name) ==
        SelectSeq(jwk.kids, LAMBDA m : m.name = name /\ m.type = "string") = <<>>
  IN  IF alg >= CUPS_JWA_HS256 /\ alg <= CUPS_JWA_HS512 THEN Missing(S_k)
      ELSE IF alg >= CUPS_JWA_RS256 /\ alg <= CUPS_JWA_RS512 THEN Missing(S_n) \/ Missing(S_e)
      ELSE IF alg >= CUPS_JWA_ES256 /\ alg <= CUPS_JWA_ES512
      THEN Missing(S_crv) \/ Missing(S_x) \/ Missing(S_y)
      ELSE FALSE

\* the verification primitive of the token's algorithm accepts the stored
\* signature for the token's signing input under the key
PrimitiveAccepts(t, jwk) ==
  LET text == B64(HeaderText(t)) \o <<DOT>> \o B64(ClaimsText(t))
      hashlen == cups_jwa_algorithms[t.sigalg + 1]
  IN  IF t.sigalg >= CUPS_JWA_HS256 /\ t.sigalg <= CUPS_JWA_HS512
      THEN t.signature =
             cupsHMACData(hashlen, httpDecode64(cupsJSONFindString(jwk, S_k), 1, 256).out, text)
      ELSE IF t.sigalg >= CUPS_JWA_RS256 /\ t.sigalg <= CUPS_JWA_RS512
      THEN RSA_verify(cupsHashData(hashlen, text), t.signature, make_rsa(jwk))
      ELSE IF t.sigalg >= CUPS_JWA_ES256 /\ t.sigalg <= CUPS_JWA_ES512
      THEN ECDSA_verify(cupsHashData(hashlen, text), t.signature, make_ec_key(jwk, TRUE))
      ELSE FALSE

\* C20: verification returns false whenever the token or the JWK is NULL,
\* the token stores no signature, the JWK lacks a parameter the token's
\* algorithm needs, or the verification primitive does not accept the
\* signature; it returns true in no such case.
C20_VerifyFailsClosed ==
  /\ \A i \in 0..Len(jwks) : \A r \in {cupsJWTHasValidSignature(jwt, Jwk(i))} :
       /\ (jwt.null \/ jwt.signature = NULL \/ Jwk(i) = JNULL) => ~r.ret
       /\ (~jwt.null /\ Jwk(i) # JNULL /\ LacksParameter(Jwk(i), jwt.sigalg)) => ~r.ret
       /\ r.ret => PrimitiveAccepts(jwt, Jwk(i))
  /\ (last.op = "verify" /\ (jwt.null \/ jwt.signature = NULL)) => ~last.ret

\* a verify call that returned false on a token signed RS256: the token
\* verifies under the public RSA key and not under the RSA key without modulus
C20_Witness ==
  /\ last.op = "verify" /\ ~last.ret
  /\ ~jwt.null /\ jwt.sigalg = CUPS_JWA_RS256 /\ jwt.signature # NULL
  /\ LacksParameter(Jwk(8), jwt.sigalg)
  /\ ~cupsJWTHasValidSignature(jwt, Jwk(8)).ret
  /\ cupsJWTHasValidSignature(jwt, Jwk(4)).ret

\* the JWK has the string member called name
HasMember(jwk, name) ==
  SelectSeq(jwk.kids, LAMBDA m : m.name = name /\ m.type = "string") # <<>>

\* the JWK holds the public parameters of an algorithm's family and no
\* private value d
PublicOnly(jwk, alg) ==
  /\ jwk # JNULL
  /\ ~HasMember(jwk, S_d)
  /\ IF alg >= CUPS_JWA_RS256 /\ alg <= CUPS_JWA_RS512
     THEN HasMember(jwk, S_n) /\ HasMember(jwk, S_e)
     ELSE /\ alg >= CUPS_JWA_ES256 /\ alg <= CUPS_JWA_ES512
          /\ HasMember(jwk, S_crv) /\ HasMember(jwk, S_x) /\ HasMember(jwk, S_y)

\* C21: a sign with RS256/384/512 or ES256/384/512 and a JWK that holds only
\* the public parameters fails when the key is loaded: it returns false
\* without the signing primitive being called with the key.
C21_PublicKeyFailsAtLoading ==
  ~jwt.null =>
    \A alg \in CUPS_JWA_RS256..CUPS_JWA_ES512 : \A i \in 1..Len(jwks) :
      PublicOnly(Jwk(i), alg) =>
        \A r \in {cupsJWTSign(jwt, alg, Jwk(i), 1)} : ~r.ret /\ r.why = "jwk"

\* the curve of an ES* algorithm, and the string of the crv member of a JWK
\* (the empty string when there is none)
CurveOf(alg) ==
  CASE alg = CUPS_JWA_ES256 -> S_P256
    [] alg = CUPS_JWA_ES384 -> S_P384
    [] alg = CUPS_JWA_ES512 -> S_P521
    [] OTHER -> <<>>

CrvOf(jwk) ==
  LET hits == SelectSeq(jwk.kids, LAMBDA m : m.name = S_crv /\ m.type = "string")
  IN  IF hits = <<>> THEN <<>> ELSE hits[1].str

\* C22: a successful sign with ES256, ES384 or ES512 was made with a JWK
\* whose crv is the curve of the algorithm (P-256, P-384, P-521), and
\* verification of a token with such an algorithm returns true only for a
\* JWK whose crv is that curve.
C22_CurveFixedByAlgorithm ==
  /\ (last.op = "sign" /\ last.ret /\ last.alg \in CUPS_JWA_ES256..CUPS_JWA_ES512) =>
       CrvOf(Jwk(last.jwk)) = CurveOf(last.alg)
  /\ (~jwt.null /\ jwt.sigalg \in CUPS_JWA_ES256..CUPS_JWA_ES512) =>
       \A i \in 1..Len(jwks) :
         cupsJWTHasValidSignature(jwt, Jwk(i)).ret => CrvOf(Jwk(i)) = CurveOf(jwt.sigalg)

(***************************************************************************)
(* Memory acquired by the key loaders and the signing paths.  Each         *)
(* operator gives the names of the objects that a call has allocated and   *)
(* that are neither released when it returns nor owned by what it returns. *)
(* EC_KEY_set_private_key, EC_POINT_set_affine_coordinates_GFp and         *)
(* EC_KEY_set_public_key copy their arguments; RSA_set0_key,               *)
(* RSA_set0_factors and RSA_set0_crt_params take ownership of theirs.      *)
(***************************************************************************)
S_p == <<112>>
S_q == <<113>>
S_dp == <<100,112>>
S_dq == <<100,113>>
S_qi == <<113,105>>

\* the name of a BIGNUM that make_bignum returned, none when it returned NULL
Bignum(name, value) == IF value = NULL THEN {} ELSE {name}

\* make_ec_key: x, y and d are freed only when no key is returned, and the
\* point is never freed
make_ec_key_allocated(jwk, verify) ==
  LET Live(crv, x, y, d) ==
        IF crv = NULL \/ ((x = NULL \/ y = NULL) /\ d = NULL) THEN {}
        ELSE IF CurveLen(crv) = 0 THEN {}
        ELSE Bignum("x", x) \cup Bignum("y", y) \cup Bignum("d", d) \cup {"point"}
  IN  Live(cupsJSONFindString(jwk, S_crv), make_bignum(jwk, S_x), make_bignum(jwk, S_y),
           IF verify THEN NULL ELSE make_bignum(jwk, S_d))

\* make_rsa: n, e and d pass to the key; p and q pass to it only together,
\* dp, dq and qi only all three; everything is freed when no key is returned
make_rsa_allocated(jwk) ==
  LET Live(n, e, p, q, dp, dq, qi) ==
        IF n = NULL \/ e = NULL THEN {}
        ELSE (IF p # NULL /\ q # NULL THEN {}
              ELSE Bignum("p", p) \cup Bignum("q", q))
             \cup
             (IF dp # NULL /\ dq # NULL /\ qi # NULL THEN {}
              ELSE Bignum("dp", dp) \cup Bignum("dq", dq) \cup Bignum("qi", qi))
  IN  Live(make_bignum(jwk, S_n), make_bignum(jwk, S_e), make_bignum(jwk, S_p),
           make_bignum(jwk, S_q), make_bignum(jwk, S_dp), make_bignum(jwk, S_dq),
           make_bignum(jwk, S_qi))

\* make_signature: the signing text is freed at done, the key object by
\* RSA_free or EC_KEY_free; what the key loader left allocated stays
make_signature_allocated(alg, jwk) ==
  IF alg >= CUPS_JWA_HS256 /\ alg <= CUPS_JWA_HS512 THEN {}
  ELSE IF alg >= CUPS_JWA_RS256 /\ alg <= CUPS_JWA_RS512 THEN make_rsa_allocated(jwk)
  ELSE IF alg >= CUPS_JWA_ES256 /\ alg <= CUPS_JWA_ES512 THEN make_ec_key_allocated(jwk, FALSE)
  ELSE {}

\* cupsJWTSign: nothing is acquired before the range check
cupsJWTSign_allocated(token, alg, jwk) ==
  IF ~SignRangeOk(token, alg, jwk) THEN {} ELSE make_signature_allocated(alg, jwk)

\* cupsJWTHasValidSignature: nothing is acquired before the range check, the
\* text is freed in each case of the switch
cupsJWTHasValidSignature_allocated(token, jwk) ==
  IF token.null \/ token.signature = NULL \/ jwk = JNULL THEN {}
  ELSE IF token.sigalg >= CUPS_JWA_HS256 /\ token.sigalg <= CUPS_JWA_HS512
  THEN make_signature_allocated(token.sigalg, jwk)
  ELSE IF token.sigalg >= CUPS_JWA_RS256 /\ token.sigalg <= CUPS_JWA_RS512
  THEN make_rsa_allocated(jwk)
  ELSE IF token.sigalg >= CUPS_JWA_ES256 /\ token.sigalg <= CUPS_JWA_ES512
  THEN make_ec_key_allocated(jwk, TRUE)
  ELSE {}

\* C23: nothing that sign or verify acquired is still allocated when the
\* call returns: not after the sign that has just succeeded, and not after
\* a sign or a verify of the token with any key and any algorithm.
C23_BuffersReleased ==
  /\ (last.op = "sign" /\ last.ret) =>
       cupsJWTSign_allocated(jwt, last.alg, Jwk(last.jwk)) = {}
  /\ ~jwt.null =>
       \A i \in 0..Len(jwks) :
         /\ \A alg \in CUPS_JWA_NONE..CUPS_JWA_MAX :
              cupsJWTSign_allocated(jwt, alg, Jwk(i)) = {}
         /\ cupsJWTHasValidSignature_allocated(jwt, Jwk(i)) = {}

(***************************************************************************)
(* Scratch buffers that receive key material.  Each operator gives the     *)
(* decoded bytes a buffer holds when the function that owns it returns;    *)
(* the bytes of the buffer past them are not key material.                 *)
(***************************************************************************)

\* make_bignum: value_bytes[1024] when make_bignum returns
make_bignum_value_bytes(jwk, key) ==
  LET Bytes(value) == IF value = NULL THEN <<>> ELSE httpDecode64(value, 1, 1024).out
  IN  Bytes(cupsJSONFindString(jwk, key))

\* make_signature: key[256] of the HMAC branch when make_signature returns
\* (memset to 0, then the decoded k), and value_bytes of the private
\* parameter d that make_rsa and make_ec_key(jwk, false) decode
make_signature_scratch(alg, jwk) ==
  IF alg >= CUPS_JWA_HS256 /\ alg <= CUPS_JWA_HS512
  THEN httpDecode64(cupsJSONFindString(jwk, S_k), 1, 256).out
  ELSE IF alg >= CUPS_JWA_RS256 /\ alg <= CUPS_JWA_ES512
  THEN make_bignum_value_bytes(jwk, S_d)
  ELSE <<>>

\* cupsJWTSign: no key is decoded before the range check
cupsJWTSign_scratch(token, alg, jwk) ==
  IF ~SignRangeOk(token, alg, jwk) THEN <<>> ELSE make_signature_scratch(alg, jwk)

\* cupsJWTHasValidSignature: the HMAC case goes through make_signature, the
\* RSA case through make_rsa (which decodes d), the ECDSA case through
\* make_ec_key(jwk, true) (which does not)
cupsJWTHasValidSignature_scratch(token, jwk) ==
  IF token.null \/ token.signature = NULL \/ jwk = JNULL THEN <<>>
  ELSE IF token.sigalg >= CUPS_JWA_HS256 /\ token.sigalg <= CUPS_JWA_RS512
  THEN make_signature_scratch(token.sigalg, jwk)
  ELSE <<>>

AllZero(buffer) == \A i \in 1..Len(buffer) : buffer[i] = 0

\* C24: the scratch buffers that held the decoded k and the decoded private
\* parameters hold only zero bytes when sign or verify returns: after the
\* sign that has just succeeded, and after a sign or a verify of the token
\* with any key and any algorithm.
C24_KeyMaterialZeroized ==
  /\ (last.op = "sign" /\ last.ret) =>
       AllZero(cupsJWTSign_scratch(jwt, last.alg, Jwk(last.jwk)))
  /\ ~jwt.null =>
       \A i \in 0..Len(jwks) :
         /\ \A alg \in CUPS_JWA_NONE..CUPS_JWA_MAX :
              AllZero(cupsJWTSign_scratch(jwt, alg, Jwk(i)))
         /\ AllZero(cupsJWTHasValidSignature_scratch(jwt, Jwk(i)))

\* the bytes that segment k of a compact serialization decodes to
DecodedSegment(t, k) == httpDecode64(Segment(t, k), 1, Len(t)).out

\* C25: in the state an import leaves, before any set-claim or sign, the
\* header text and the claims text are exactly the decoded bytes of the first
\* two segments of the input, and the signing input that verification hashes
\* is base64url of the one, a dot, and base64url of the other.
C25_VerifyUsesImportedBytes ==
  (last.op = "import" /\ last.ret) =>
    \A t \in {inputs[last.input]} :
      /\ jwt.jose_string = DecodedSegment(t, 1)
      /\ jwt.claims_string = DecodedSegment(t, 2)
      /\ make_string(jwt, FALSE, <<>>).s
           = B64(DecodedSegment(t, 1)) \o <<DOT>> \o B64(DecodedSegment(t, 2))

\* C26: a verify call leaves the header tree, the header text, the claims
\* tree, the algorithm and the signature as they were, for every token and
\* every JWK; the claims text either stays as it was or goes from absent to
\* the serialization of the claims.
C26_VerifyReadOnly ==
  [][last'.op = "verify" =>
       \A old \in {jwt}, new \in {jwt'} :
         /\ new.null = old.null
         /\ new.jose = old.jose
         /\ new.jose_string = old.jose_string
         /\ new.claims = old.claims
         /\ new.sigalg = old.sigalg
         /\ new.signature = old.signature
         /\ new.sigsize = old.sigsize
         /\ \/ new.claims_string = old.claims_string
            \/ /\ old.claims_string = NULL
               /\ new.claims_string = cupsJSONExportString(old.claims)]_vars

\* a verify of an HS256 token whose claim was set after the signature was
\* made, so that no key verifies it: the claims text, absent since the
\* set-claim, is now the serialization of the claims
C26_Witness ==
  /\ last.op = "verify" /\ ~last.ret /\ ~jwt.null
  /\ jwt.sigalg = CUPS_JWA_HS256 /\ jwt.sigsize = 32
  /\ jwt.claims_string = cupsJSONExportString(jwt.claims)
  /\ \A i \in 1..Len(jwks) : ~cupsJWTHasValidSignature(jwt, Jwk(i)).ret

\* C27: in every reachable state a token that stores a signature has a
\* header text, so verification obtains a signing input; and every sign that
\* passed the range check, successful or not, worked on a token with a
\* header text and so obtained its signing input.
C27_HeaderTextPresent ==
  ~jwt.null =>
    /\ jwt.signature # NULL =>
         /\ jwt.jose_string # NULL
         /\ make_string(jwt, FALSE, <<>>).s # NULL
    /\ (last.op = "sign" /\ last.why # "range") =>
         /\ jwt.jose_string # NULL
         /\ make_string(jwt, FALSE, <<>>).s # NULL

\* a token that had no header text (it is new, with nothing stored but a
\* claim) signed with success and verified by the key's public form
C27_Witness ==
  /\ last.op = "sign" /\ last.ret /\ ~last.signed
  /\ jwt.signature # NULL /\ jwt.jose_string # NULL
  /\ AlgMembers(jwt.jose) # <<>>
  /\ cupsJWTHasValidSignature(jwt, Jwk(PublicOf[last.jwk])).ret

\* C28: in every reachable state the algorithm cupsJWTGetAlgorithm returns
\* is the one the alg member of the header names: CUPS_JWA_NONE when the
\* header has no alg member or one that names no algorithm, and the
\* algorithm whose identifier the member holds otherwise; also after a sign
\* that failed after it had rewritten the header.
C28_HeaderAlgMatchesAlgorithm ==
  ~jwt.null =>
    \A exact \in {AlgExact(jwt.jose)} :
      cupsJWTGetAlgorithm(jwt) \in (IF exact = {} THEN {CUPS_JWA_NONE} ELSE exact)

\* C29: a sign call that the range check rejects (no token, no JWK, an
\* algorithm that is CUPS_JWA_NONE or not one of the nine signing
\* algorithms) leaves every field of the token as it was, and every key that
\* verified the token before the call verifies it after.
C29_RangeRejectedSignKeepsToken ==
  [][(last'.op = "sign" /\ last'.why = "range") =>
       \A old \in {jwt}, new \in {jwt'} :
         /\ new = old
         /\ ~last'.ret
         /\ \A i \in 1..Len(jwks) :
              cupsJWTHasValidSignature(old, Jwk(i)).ret
                => cupsJWTHasValidSignature(new, Jwk(i)).ret]_vars

\* a signed token after a sign call that the range check rejected: the
\* signature is in place and a key verifies it
C29_Witness ==
  /\ last.op = "sign" /\ ~last.ret /\ last.why = "range" /\ last.signed
  /\ ~jwt.null /\ jwt.signature # NULL /\ jwt.sigalg # CUPS_JWA_NONE
  /\ \E i \in 1..Len(jwks) : cupsJWTHasValidSignature(jwt, Jwk(i)).ret

\* C30: for every reachable token that stores a signature, the string
\* make_string builds with the signature is whole: the export is not NULL
\* and its third segment is the complete base64url encoding of the stored
\* signature.
C30_ExportHoldsWholeSignature ==
  (~jwt.null /\ jwt.signature # NULL) =>
    \A s \in {cupsJWTExportString(jwt, <<>>).s} :
      /\ s # NULL
      /\ Segment(s, 3) = B64(jwt.signature)

====
